---- MODULE Spec2Model ----
(***************************************************************************)
(* FareShare persistence layer.                                            *)
(*   backend/src/config/db.py      connection manager                      *)
(*   backend/src/models/booking.py bookings table                          *)
(*   backend/src/models/review.py  reviews table                           *)
(*                                                                         *)
(* Four specifications share the variables and the initial state:          *)
(*   Spec        application lifecycle: init_db and close_db around the    *)
(*               scoped sessions of get_async_session;                     *)
(*   SpecSession units of work: what the blocks write, commit, rollback;   *)
(*   SpecStore   the bookings and reviews tables with their constraints;   *)
(*   SpecPool    the connection pool configured by init_db, with more      *)
(*               tasks than it has connections.                            *)
(***************************************************************************)
EXTENDS Integers, FiniteSets, Sequences, TLC

VARIABLES
    \* ---- db.py module state
    async_engine,            \* db.py:46, None or the engine held
    async_session_factory,   \* db.py:47, None or the engine the factory is bound to
    engines,                 \* every engine create_async_engine has built
    \* ---- one get_async_session scope per task
    pc, scope, sess, opened_at, conn, txn, pending, issued, block, raised, result,
    commits, rollbacks, acquired, released,
    store,                   \* committed changes
    \* ---- tables
    rides, users,            \* ids of the rows of the rides and users tables
    bookings, reviews,       \* rows of the two tables
    db_error,                \* the failure of the last write, or none
    last_op,                 \* the last write: a delete, with 1 for each table
                             \* it cascaded to, or any other write
    \* ---- the engine's QueuePool
    overflow, idle_conns, t_new, t_wait, t_hold, t_timeout

mgr_vars  == <<async_engine, async_session_factory, engines>>
sess_vars == <<pc, scope, sess, opened_at, conn, txn, pending, issued, block, raised, result,
               commits, rollbacks, acquired, released, store>>
tbl_vars  == <<rides, users, bookings, reviews, db_error, last_op>>
pool_vars == <<overflow, idle_conns, t_new, t_wait, t_hold, t_timeout>>
vars == <<mgr_vars, sess_vars, tbl_vars, pool_vars>>

\* Python's None, for the engine and factory handles (engines count from 1).
None == 0
\* No failure raised.
NoFailure == "none"

\* ------------------------------------------------------------------ bounds
MaxInits  == 2      \* init_db calls explored
MaxCloses == 2      \* times close_db disposes an engine, in all
MaxScopes == 2      \* scopes opened in all, by any task
MaxRows   == 2      \* rows held by bookings and reviews, in all
NumPoolTasks == 32  \* tasks sharing the pool, more than it has connections
Task      == {"t1", "t2"}
Engine    == 1 .. MaxInits

\* pool_size and max_overflow of create_async_engine
PoolSize    == 20
MaxOverflow == 10

\* Failures the caller's block raises: one that is an Exception, and
\* asyncio's CancelledError, which is a BaseException only.
BlockFailure == {"ValueError", "CancelledError"}
IsException(e) == e # "CancelledError"

\* What a block writes through the session: a row the store accepts and a
\* row that breaks a constraint when it is flushed by commit.
Write == {"row", "bad_row"}
Violates(w) == w = "bad_row"

\* ------------------------------------------------------------ init_db, close_db
NoEngine == [created |-> FALSE, disposals |-> 0, checkedout |-> 0]

Created == {e \in Engine : engines[e].created}

\* init_db with the global declaration naming the engine alone: the factory
\* it builds stays local and is lost.
init_db_factory_local ==
    /\ Cardinality(Created) < MaxInits
    /\ LET e == Cardinality(Created) + 1 IN
        /\ engines' = [engines EXCEPT ![e].created = TRUE]
        /\ async_engine' = e
    /\ UNCHANGED <<async_session_factory, sess_vars, tbl_vars, pool_vars>>

\* db.py:53-91. Each call builds a new engine and a factory bound to it and
\* overwrites both globals; there is no await between the two assignments.
init_db ==
    /\ Cardinality(Created) < MaxInits
    /\ LET e == Cardinality(Created) + 1 IN
        /\ engines' = [engines EXCEPT ![e].created = TRUE]
        /\ async_engine' = e
        /\ async_session_factory' = e
    /\ UNCHANGED <<sess_vars, tbl_vars, pool_vars>>

\* The disposals of the engines 1 .. n so far.
RECURSIVE Disposals(_)
Disposals(n) == IF n = 0 THEN 0 ELSE engines[n].disposals + Disposals(n - 1)

\* close_db that also clears the handles after disposing.
close_db_clears_handles ==
    /\ async_engine # None => Disposals(MaxInits) < MaxCloses
    /\ IF async_engine # None
         THEN engines' = [engines EXCEPT ![async_engine].disposals = @ + 1]
         ELSE UNCHANGED engines
    /\ async_engine' = None
    /\ async_session_factory' = None
    /\ UNCHANGED <<sess_vars, tbl_vars, pool_vars>>

\* db.py:94-102. Disposes the engine held, if any; assigns neither global.
close_db ==
    /\ async_engine # None => Disposals(MaxInits) < MaxCloses
    /\ IF async_engine # None
         THEN engines' = [engines EXCEPT ![async_engine].disposals = @ + 1]
         ELSE UNCHANGED engines
    /\ UNCHANGED <<async_engine, async_session_factory, sess_vars, tbl_vars, pool_vars>>

\* ------------------------------------------------------- get_async_session
\* db.py:117, the guard of get_async_session.
Initialized == async_session_factory # None

\* A failure raised at the yield or by commit: `except Exception` takes it to
\* rollback, anything else goes straight to the finally clause.
AfterRaise(e) == IF IsException(e) THEN "rollback" ELSE "close"

\* A scope that swallows the failure: `raise` left out of the handler.
SurfacedSwallowed(t) == "ok"

\* What the scope hands its caller once it exits: the bare `raise` re-raises
\* the failure that was caught, a block and commit without failure return.
Surfaced(t) == IF raised[t] = NoFailure THEN "ok" ELSE raised[t]

\* A close that checks a connection in whether or not one is held.
ReturnedAlways(t) == 1

\* Connections a session gives back when its transaction ends or it is
\* closed: the one it holds, if it holds one.
Returned(t) == IF conn[t] THEN 1 ELSE 0

\* The pool has a connection to hand out.
PoolHasRoom(e) == engines[e].checkedout < PoolSize + MaxOverflow

\* The session checks a connection out of its engine's pool if it has none.
Checkout(t) ==
    IF conn[t]
      THEN UNCHANGED <<conn, acquired, engines>>
      ELSE /\ PoolHasRoom(sess[t])
           /\ conn' = [conn EXCEPT ![t] = TRUE]
           /\ acquired' = [acquired EXCEPT ![t] = @ + 1]
           /\ engines' = [engines EXCEPT ![sess[t]].checkedout = @ + 1]

\* The session gives its connection back to the pool.
Checkin(t) ==
    /\ conn' = [conn EXCEPT ![t] = FALSE]
    /\ released' = [released EXCEPT ![t] = @ + Returned(t)]
    /\ engines' = [engines EXCEPT ![sess[t]].checkedout = @ - Returned(t)]

\* Scopes opened so far; each gets the next serial number.
Opened == LET S == {scope[t] : t \in Task} IN CHOOSE n \in S : \A m \in S : m <= n

\* db.py:117-120. Entering the scope: not initialized raises RuntimeError and
\* nothing else happens; otherwise the factory builds a session.
get_async_session(t) ==
    /\ pc[t] \in {"idle", "done"}
    /\ Opened < MaxScopes
    /\ scope' = [scope EXCEPT ![t] = Opened + 1]
    /\ conn' = [conn EXCEPT ![t] = FALSE]
    /\ txn' = [txn EXCEPT ![t] = "none"]
    /\ pending' = [pending EXCEPT ![t] = {}]
    /\ issued' = [issued EXCEPT ![t] = {}]
    /\ commits' = [commits EXCEPT ![t] = 0]
    /\ rollbacks' = [rollbacks EXCEPT ![t] = 0]
    /\ acquired' = [acquired EXCEPT ![t] = 0]
    /\ released' = [released EXCEPT ![t] = 0]
    /\ IF Initialized
         THEN /\ pc' = [pc EXCEPT ![t] = "body"]
              /\ sess' = [sess EXCEPT ![t] = async_session_factory]
              /\ opened_at' = [opened_at EXCEPT ![t] =
                                  engines[async_session_factory].disposals]
              /\ block' = [block EXCEPT ![t] = "running"]
              /\ raised' = [raised EXCEPT ![t] = NoFailure]
              /\ result' = [result EXCEPT ![t] = "none"]
         ELSE /\ pc' = [pc EXCEPT ![t] = "done"]
              /\ sess' = [sess EXCEPT ![t] = None]
              /\ opened_at' = [opened_at EXCEPT ![t] = 0]
              /\ block' = [block EXCEPT ![t] = "not_entered"]
              /\ raised' = [raised EXCEPT ![t] = "RuntimeError"]
              /\ result' = [result EXCEPT ![t] = "RuntimeError"]
    /\ UNCHANGED <<store, async_engine, async_session_factory, engines,
                   tbl_vars, pool_vars>>

\* db.py:131-145. The route dependency enters get_async_session and yields
\* its session; the route is the block.
get_db(t) == get_async_session(t)

\* The caller's block, db.py:122 (yield session): session.add(w).
block_add(t, w) ==
    /\ pc[t] = "body"
    /\ w \notin issued[t]
    /\ pending' = [pending EXCEPT ![t] = @ \cup {w}]
    /\ issued' = [issued EXCEPT ![t] = @ \cup {w}]
    /\ txn' = [txn EXCEPT ![t] = "open"]
    /\ UNCHANGED <<pc, scope, sess, opened_at, conn, block, raised, result, commits, rollbacks,
                   acquired, released, store, mgr_vars, tbl_vars, pool_vars>>

\* The caller's block: session.execute(query). The session takes a connection
\* on first use and autoflushes what is pending, which raises inside the
\* block when a pending row breaks a constraint.
block_execute(t) ==
    /\ pc[t] = "body"
    /\ Checkout(t)
    /\ txn' = [txn EXCEPT ![t] = "open"]
    /\ IF \E w \in pending[t] : Violates(w)
         THEN /\ raised' = [raised EXCEPT ![t] = "IntegrityError"]
              /\ block' = [block EXCEPT ![t] = "raised"]
              /\ pc' = [pc EXCEPT ![t] = AfterRaise("IntegrityError")]
         ELSE UNCHANGED <<raised, block, pc>>
    /\ UNCHANGED <<scope, sess, opened_at, pending, issued, result, commits, rollbacks, released,
                   store, async_engine, async_session_factory, tbl_vars, pool_vars>>

\* The caller's block ends without raising: control returns after the yield.
block_returns(t) ==
    /\ pc[t] = "body"
    /\ block' = [block EXCEPT ![t] = "returned"]
    /\ pc' = [pc EXCEPT ![t] = "commit"]
    /\ UNCHANGED <<scope, sess, opened_at, conn, txn, pending, issued, raised, result, commits,
                   rollbacks, acquired, released, store, mgr_vars, tbl_vars, pool_vars>>

\* The commit placed where it also runs after a failure of the block.
block_raises_then_commits(t, e) ==
    /\ pc[t] = "body"
    /\ block' = [block EXCEPT ![t] = "raised"]
    /\ raised' = [raised EXCEPT ![t] = e]
    /\ pc' = [pc EXCEPT ![t] = "commit"]
    /\ UNCHANGED <<scope, sess, opened_at, conn, txn, pending, issued, result, commits,
                   rollbacks, acquired, released, store, mgr_vars, tbl_vars, pool_vars>>

\* The caller's block raises e: the failure is thrown into the generator at
\* the yield.
block_raises(t, e) ==
    /\ pc[t] = "body"
    /\ block' = [block EXCEPT ![t] = "raised"]
    /\ raised' = [raised EXCEPT ![t] = e]
    /\ pc' = [pc EXCEPT ![t] = AfterRaise(e)]
    /\ UNCHANGED <<scope, sess, opened_at, conn, txn, pending, issued, result, commits,
                   rollbacks, acquired, released, store, mgr_vars, tbl_vars, pool_vars>>

\* db.py:123, await session.commit(). The flush takes a connection if rows
\* are pending and none is held; a row that breaks a constraint makes the
\* commit raise IntegrityError with the transaction still to be rolled
\* back; otherwise the rows reach the store, the transaction ends and the
\* connection goes back to the pool.
session_commit(t) ==
    /\ pc[t] = "commit"
    /\ commits' = [commits EXCEPT ![t] = @ + 1]
    /\ IF \E w \in pending[t] : Violates(w)
         THEN /\ Checkout(t)
              /\ raised' = [raised EXCEPT ![t] = "IntegrityError"]
              /\ pc' = [pc EXCEPT ![t] = AfterRaise("IntegrityError")]
              /\ UNCHANGED <<store, pending, txn, released>>
         ELSE /\ pending[t] # {} /\ ~conn[t] => PoolHasRoom(sess[t])
              /\ store' = store \cup {<<scope[t], w>> : w \in pending[t]}
              /\ pending' = [pending EXCEPT ![t] = {}]
              /\ txn' = [txn EXCEPT ![t] = "committed"]
              /\ acquired' = [acquired EXCEPT ![t] =
                                 IF pending[t] # {} /\ ~conn[t] THEN @ + 1 ELSE @]
              /\ released' = [released EXCEPT ![t] =
                                 IF pending[t] # {} /\ ~conn[t] THEN @ + 1
                                                                ELSE @ + Returned(t)]
              /\ engines' = [engines EXCEPT ![sess[t]].checkedout = @ - Returned(t)]
              /\ conn' = [conn EXCEPT ![t] = FALSE]
              /\ pc' = [pc EXCEPT ![t] = "close"]
              /\ UNCHANGED raised
    /\ UNCHANGED <<scope, sess, opened_at, issued, block, result, rollbacks, async_engine,
                   async_session_factory, tbl_vars, pool_vars>>

\* db.py:124-126, except Exception: await session.rollback(); raise.
session_rollback(t) ==
    /\ pc[t] = "rollback"
    /\ rollbacks' = [rollbacks EXCEPT ![t] = @ + 1]
    /\ pending' = [pending EXCEPT ![t] = {}]
    /\ txn' = [txn EXCEPT ![t] = IF @ = "open" THEN "rolledback" ELSE @]
    /\ Checkin(t)
    /\ pc' = [pc EXCEPT ![t] = "close"]
    /\ UNCHANGED <<scope, sess, opened_at, issued, block, raised, result, commits, acquired,
                   store, async_engine, async_session_factory, tbl_vars, pool_vars>>

\* session.close(): a transaction still open is rolled back and the
\* connection, if one is held, goes back to the pool.
SessionClose(t) ==
    /\ pending' = [pending EXCEPT ![t] = {}]
    /\ txn' = [txn EXCEPT ![t] = IF @ = "open" THEN "rolledback" ELSE @]
    /\ Checkin(t)

\* db.py:127-128, finally: await session.close().
session_close(t) ==
    /\ pc[t] = "close"
    /\ SessionClose(t)
    /\ pc' = [pc EXCEPT ![t] = "aexit"]
    /\ UNCHANGED <<scope, sess, opened_at, issued, block, raised, result, commits, rollbacks,
                   acquired, store, async_engine, async_session_factory, tbl_vars,
                   pool_vars>>

\* db.py:120, leaving `async with async_session_factory() as session`: the
\* session is closed once more, then the scope returns or re-raises.
session_aexit(t) ==
    /\ pc[t] = "aexit"
    /\ SessionClose(t)
    /\ result' = [result EXCEPT ![t] = Surfaced(t)]
    /\ pc' = [pc EXCEPT ![t] = "done"]
    /\ UNCHANGED <<scope, sess, opened_at, issued, block, raised, commits, rollbacks,
                   acquired, store, async_engine, async_session_factory, tbl_vars,
                   pool_vars>>

\* ------------------------------------------------------------------ tables
Ride == {1, 2}
User == {1, 2}

\* A column left out of the INSERT, <<>>, or given a value, <<v>>.
Opt(S) == {<<>>} \cup {<<v>> : v \in S}
OrDefault(x, d) == IF x = <<>> THEN d ELSE x[1]

\* Values the writers try. Amounts are in cents.
SeatsTried  == {0, 1}
AmountTried == {0 - 1, 0}
StatusTried == {"pending", "unknown"}
RatingTried == {0, 1, 5, 6}
\* The columns <<seats_reserved, amount_paid, status>> of the bookings the
\* writers try to insert: one seat with the defaults, and what departs from
\* it in one column.
BookingTried ==
    {<<n, <<>>, <<>>>> : n \in Opt(SeatsTried)}
      \cup {<<(<<1>>), a, <<>>>> : a \in Opt(AmountTried)}
      \cup {<<(<<1>>), <<>>, st>> : st \in Opt(StatusTried)}

\* booking.py:87-92, amount_paid has server default 0.00
AmountDefault == 0
\* booking.py:101-107, status has server default "pending"
StatusDefault == "pending"

\* booking.py:125-128
check_seats_reserved_positive(seats) == seats > 0
\* booking.py:130-133
check_amount_positive(amount) == amount >= 0
\* booking.py:135-138
check_booking_status(status) ==
    status \in {"pending", "confirmed", "cancelled", "completed"}
\* The rating check with its lower bound left out.
check_rating_max_only(rating) == rating <= 5
\* review.py:133-136
check_rating_range(rating) == rating >= 1 /\ rating <= 5
\* The uniqueness constraint with reviewee_id left out of its columns.
unique_review_per_ride_reviewer(row, others) ==
    ~ \E v \in others : /\ v.ride_id = row.ride_id
                        /\ v.reviewer_id = row.reviewer_id
\* review.py:141-144: no other row of the table has the row's triple.
unique_review_per_ride_pair(row, others) ==
    ~ \E v \in others : /\ v.ride_id = row.ride_id
                        /\ v.reviewer_id = row.reviewer_id
                        /\ v.reviewee_id = row.reviewee_id

\* booking.py:53-59 and 64-70: the rows that reference an existing ride and
\* an existing passenger.
BookingRefsOK(row) == row.ride_id \in rides /\ row.passenger_id \in users
\* review.py:67-96
ReviewRefsOK(row) ==
    row.ride_id \in rides /\ row.reviewer_id \in users /\ row.reviewee_id \in users

\* The failure the store raises for a bookings row, or none: NOT NULL first,
\* then the CHECK constraints, then the foreign keys.
BookingError(seats, row) ==
    IF seats = <<>> THEN "not_null_violation"
    ELSE IF ~(/\ check_seats_reserved_positive(row.seats_reserved)
              /\ check_amount_positive(row.amount_paid)
              /\ check_booking_status(row.status)) THEN "check_violation"
    ELSE IF ~BookingRefsOK(row) THEN "foreign_key_violation"
    ELSE NoFailure

\* The failure the store raises for a reviews row, or none; others are the
\* other rows of the table.
ReviewError(rating, row, others) ==
    IF rating = <<>> THEN "not_null_violation"
    ELSE IF ~check_rating_range(row.rating) THEN "check_violation"
    ELSE IF ~unique_review_per_ride_pair(row, others) THEN "unique_violation"
    ELSE IF ~ReviewRefsOK(row) THEN "foreign_key_violation"
    ELSE NoFailure

\* The ride foreign key of bookings without ON DELETE CASCADE taking effect.
BookingsKeptOnRideDelete(r) == bookings

\* ON DELETE CASCADE, booking.py:55 and 66, review.py:69, 80 and 92: the rows
\* that are left when a ride or a user goes.
BookingsAfterRideDelete(r) == {b \in bookings : b.ride_id # r}
ReviewsAfterRideDelete(r)  == {v \in reviews : v.ride_id # r}
BookingsAfterUserDelete(u) == {b \in bookings : b.passenger_id # u}
ReviewsAfterUserDelete(u)  == {v \in reviews : v.reviewer_id # u /\ v.reviewee_id # u}

\* gen_random_uuid(), booking.py:41-46 and review.py:54-59. Writers never
\* choose or read an id, so ids only tell apart rows whose other columns
\* are equal: a new row takes the least id no such row has.
SameColumns(x, y) == [x EXCEPT !.id = 0] = [y EXCEPT !.id = 0]
NewId(row, table) ==
    CHOOSE i \in 1 .. MaxRows + 1 :
        /\ \A x \in table : SameColumns(x, row) => x.id # i
        /\ \A j \in 1 .. i - 1 : \E x \in table : SameColumns(x, row) /\ x.id = j
WithNewId(row, table) == [row EXCEPT !.id = NewId(row, table)]
\* The tables are below the bound on their rows; at the bound only writes
\* that add no row go on.
HasRoom == Cardinality(bookings) + Cardinality(reviews) < MaxRows

\* 1 when the set has a member.
Some(S) == IF S = {} THEN 0 ELSE 1

\* Rows of the rides and users tables come and go.
insert_ride(r) ==
    /\ r \notin rides
    /\ rides' = rides \cup {r}
    /\ db_error' = NoFailure
    /\ last_op' = <<"write", 0, 0>>
    /\ UNCHANGED <<users, bookings, reviews, mgr_vars, sess_vars, pool_vars>>

insert_user(u) ==
    /\ u \notin users
    /\ users' = users \cup {u}
    /\ db_error' = NoFailure
    /\ last_op' = <<"write", 0, 0>>
    /\ UNCHANGED <<rides, bookings, reviews, mgr_vars, sess_vars, pool_vars>>

\* DELETE FROM rides WHERE id = r, with the cascades of both tables.
delete_ride(r) ==
    /\ r \in rides
    /\ rides' = rides \ {r}
    /\ bookings' = BookingsAfterRideDelete(r)
    /\ reviews' = ReviewsAfterRideDelete(r)
    /\ db_error' = NoFailure
    /\ last_op' = <<"delete_ride",
                    Some({b \in bookings : b.ride_id = r}),
                    Some({v \in reviews : v.ride_id = r})>>
    /\ UNCHANGED <<users, mgr_vars, sess_vars, pool_vars>>

\* DELETE FROM users WHERE id = u, with the cascades of both tables.
delete_user(u) ==
    /\ u \in users
    /\ users' = users \ {u}
    /\ bookings' = BookingsAfterUserDelete(u)
    /\ reviews' = ReviewsAfterUserDelete(u)
    /\ db_error' = NoFailure
    /\ last_op' = <<"delete_user",
                    Some({b \in bookings : b.passenger_id = u}),
                    Some({v \in reviews : v.reviewer_id = u \/ v.reviewee_id = u})>>
    /\ UNCHANGED <<rides, mgr_vars, sess_vars, pool_vars>>

\* INSERT INTO bookings: the id is generated, amount_paid and status take
\* their server defaults when left out.
insert_booking(r, p, seats, amount, status) ==
    /\ LET row == WithNewId([id |-> 0, ride_id |-> r, passenger_id |-> p,
                             seats_reserved |-> OrDefault(seats, 0),
                             amount_paid |-> OrDefault(amount, AmountDefault),
                             status |-> OrDefault(status, StatusDefault)],
                            bookings)
           err == BookingError(seats, row)
       IN /\ err = NoFailure => HasRoom
          /\ db_error' = err
          /\ last_op' = <<"write", 0, 0>>
          /\ IF err = NoFailure
               THEN bookings' = bookings \cup {row}
               ELSE UNCHANGED bookings
    /\ UNCHANGED <<rides, users, reviews, mgr_vars, sess_vars, pool_vars>>

\* UPDATE bookings SET seats_reserved, amount_paid, status WHERE id = b.id
update_booking(b, seats, amount, status) ==
    /\ b \in bookings
    /\ LET row == WithNewId([b EXCEPT !.seats_reserved = seats,
                                       !.amount_paid = amount, !.status = status],
                            bookings \ {b})
           err == BookingError(<<seats>>, row)
       IN /\ db_error' = err
          /\ last_op' = <<"write", 0, 0>>
          /\ IF err = NoFailure
               THEN bookings' = (bookings \ {b}) \cup {row}
               ELSE UNCHANGED bookings
    /\ UNCHANGED <<rides, users, reviews, mgr_vars, sess_vars, pool_vars>>

delete_booking(b) ==
    /\ b \in bookings
    /\ bookings' = bookings \ {b}
    /\ db_error' = NoFailure
    /\ last_op' = <<"write", 0, 0>>
    /\ UNCHANGED <<rides, users, reviews, mgr_vars, sess_vars, pool_vars>>

\* INSERT INTO reviews
insert_review(r, a, b, rating) ==
    /\ LET row == WithNewId([id |-> 0, ride_id |-> r, reviewer_id |-> a,
                             reviewee_id |-> b, rating |-> OrDefault(rating, 0)],
                            reviews)
           err == ReviewError(rating, row, reviews)
       IN /\ err = NoFailure => HasRoom
          /\ db_error' = err
          /\ last_op' = <<"write", 0, 0>>
          /\ IF err = NoFailure
               THEN reviews' = reviews \cup {row}
               ELSE UNCHANGED reviews
    /\ UNCHANGED <<rides, users, bookings, mgr_vars, sess_vars, pool_vars>>

\* UPDATE reviews SET rating WHERE id = v.id
update_review(v, rating) ==
    /\ v \in reviews
    /\ LET row == WithNewId([v EXCEPT !.rating = rating], reviews \ {v})
           err == ReviewError(<<rating>>, row, reviews \ {v})
       IN /\ db_error' = err
          /\ last_op' = <<"write", 0, 0>>
          /\ IF err = NoFailure
               THEN reviews' = (reviews \ {v}) \cup {row}
               ELSE UNCHANGED reviews
    /\ UNCHANGED <<rides, users, bookings, mgr_vars, sess_vars, pool_vars>>

delete_review(v) ==
    /\ v \in reviews
    /\ reviews' = reviews \ {v}
    /\ db_error' = NoFailure
    /\ last_op' = <<"write", 0, 0>>
    /\ UNCHANGED <<rides, users, bookings, mgr_vars, sess_vars, pool_vars>>

\* -------------------------------------------------------- connection pool
\* The pool create_async_engine builds from db.py:76-84: a queue of at most
\* pool_size idle connections and an overflow counter that starts at
\* -pool_size, counts every connection opened and stops at max_overflow.
\* No pool_timeout is passed, so a request that finds the pool exhausted
\* waits on the queue for the pool's default timeout and then fails.
\* Tasks are counted, not named: t_new have no connection and ask for none,
\* t_wait are suspended in a checkout, t_hold hold a connection each,
\* t_timeout had their checkout fail.

CheckedOut == PoolSize - idle_conns + overflow
PoolLimit  == PoolSize + MaxOverflow

\* The overflow test off by one.
CanOverflowOffByOne == overflow <= MaxOverflow

\* The pool may open one more connection.
CanOverflow == overflow < MaxOverflow

\* A session's first statement checks a connection out: an idle one, else a
\* new one while the overflow allows, else the task suspends on the queue.
pool_checkout ==
    /\ t_new > 0
    /\ t_new' = t_new - 1
    /\ IF idle_conns > 0
         THEN /\ idle_conns' = idle_conns - 1
              /\ t_hold' = t_hold + 1
              /\ UNCHANGED <<overflow, t_wait>>
         ELSE IF CanOverflow
           THEN /\ overflow' = overflow + 1
                /\ t_hold' = t_hold + 1
                /\ UNCHANGED <<idle_conns, t_wait>>
           ELSE /\ t_wait' = t_wait + 1
                /\ UNCHANGED <<idle_conns, overflow, t_hold>>
    /\ UNCHANGED <<t_timeout, mgr_vars, sess_vars, tbl_vars>>

\* A suspended task is handed a connection that came back to the queue.
pool_wakeup ==
    /\ t_wait > 0
    /\ idle_conns > 0
    /\ t_wait' = t_wait - 1
    /\ idle_conns' = idle_conns - 1
    /\ t_hold' = t_hold + 1
    /\ UNCHANGED <<overflow, t_new, t_timeout, mgr_vars, sess_vars, tbl_vars>>

\* The wait of a suspended task runs out: its checkout raises TimeoutError.
pool_timeout ==
    /\ t_wait > 0
    /\ t_wait' = t_wait - 1
    /\ t_timeout' = t_timeout + 1
    /\ UNCHANGED <<overflow, idle_conns, t_new, t_hold, mgr_vars, sess_vars, tbl_vars>>

\* A session ends its transaction or closes: its connection goes back to the
\* queue, or is closed when the queue is full; the task may open a new scope.
pool_release ==
    /\ t_hold > 0
    /\ t_hold' = t_hold - 1
    /\ t_new' = t_new + 1
    /\ IF idle_conns < PoolSize
         THEN /\ idle_conns' = idle_conns + 1
              /\ UNCHANGED overflow
         ELSE /\ overflow' = overflow - 1
              /\ UNCHANGED idle_conns
    /\ UNCHANGED <<t_wait, t_timeout, mgr_vars, sess_vars, tbl_vars>>

\* ------------------------------------------------------------ specification
InitMgr ==
    /\ async_engine = None
    /\ async_session_factory = None
    /\ engines = [e \in Engine |-> NoEngine]

InitSess ==
    /\ pc = [t \in Task |-> "idle"]
    /\ scope = [t \in Task |-> 0]
    /\ sess = [t \in Task |-> None]
    /\ opened_at = [t \in Task |-> 0]
    /\ conn = [t \in Task |-> FALSE]
    /\ txn = [t \in Task |-> "none"]
    /\ pending = [t \in Task |-> {}]
    /\ issued = [t \in Task |-> {}]
    /\ block = [t \in Task |-> "not_entered"]
    /\ raised = [t \in Task |-> NoFailure]
    /\ result = [t \in Task |-> "none"]
    /\ commits = [t \in Task |-> 0]
    /\ rollbacks = [t \in Task |-> 0]
    /\ acquired = [t \in Task |-> 0]
    /\ released = [t \in Task |-> 0]
    /\ store = {}

InitTbl ==
    /\ rides = {}
    /\ users = {}
    /\ bookings = {}
    /\ reviews = {}
    /\ db_error = NoFailure
    /\ last_op = <<"none", 0, 0>>

InitPool ==
    /\ overflow = 0 - PoolSize
    /\ idle_conns = 0
    /\ t_new = NumPoolTasks
    /\ t_wait = 0
    /\ t_hold = 0
    /\ t_timeout = 0

Init == InitMgr /\ InitSess /\ InitTbl /\ InitPool

\* Application lifecycle: init_db and close_db at any time, while tasks open
\* scopes and run queries in them.
Next ==
    \/ init_db
    \/ close_db
    \/ \E t \in Task : get_async_session(t)
    \/ \E t \in Task : get_db(t)
    \/ \E t \in Task : block_execute(t)
    \/ \E t \in Task : block_returns(t)
    \/ \E t \in Task, e \in BlockFailure : block_raises(t, e)
    \/ \E t \in Task : session_commit(t)
    \/ \E t \in Task : session_rollback(t)
    \/ \E t \in Task : session_close(t)
    \/ \E t \in Task : session_aexit(t)

Spec == Init /\ [][Next]_vars

\* Units of work: tasks open scopes whose blocks add rows and run queries.
NextSession ==
    \/ init_db
    \/ \E t \in Task : get_async_session(t)
    \/ \E t \in Task : get_db(t)
    \/ \E t \in Task, w \in Write : block_add(t, w)
    \/ \E t \in Task : block_execute(t)
    \/ \E t \in Task : block_returns(t)
    \/ \E t \in Task, e \in BlockFailure : block_raises(t, e)
    \/ \E t \in Task : session_commit(t)
    \/ \E t \in Task : session_rollback(t)
    \/ \E t \in Task : session_close(t)
    \/ \E t \in Task : session_aexit(t)

SpecSession == Init /\ [][NextSession]_vars

\* The tables under every write the store accepts or rejects.
NextStore ==
    \/ \E r \in Ride : insert_ride(r)
    \/ \E u \in User : insert_user(u)
    \/ \E r \in Ride : delete_ride(r)
    \/ \E u \in User : delete_user(u)
    \/ \E r \in Ride, p \in User, c \in BookingTried :
            insert_booking(r, p, c[1], c[2], c[3])
    \/ \E b \in bookings, seats \in SeatsTried, amount \in AmountTried,
          status \in StatusTried : update_booking(b, seats, amount, status)
    \/ \E b \in bookings : delete_booking(b)
    \/ \E r \in Ride, a \in User, b \in User, rating \in Opt(RatingTried) :
            insert_review(r, a, b, rating)
    \/ \E v \in reviews, rating \in RatingTried : update_review(v, rating)
    \/ \E v \in reviews : delete_review(v)

SpecStore == Init /\ [][NextStore]_vars

\* The pool under more tasks than it has connections.
NextPool ==
    \/ pool_checkout
    \/ pool_wakeup
    \/ pool_timeout
    \/ pool_release

SpecPool == Init /\ [][NextPool]_vars

\* ================================================================= claims

\* The rows the block of t's current scope handed to the session.
ScopeRows(t) == {<<scope[t], w>> : w \in issued[t]}
\* t's scope has exited and had a session.
Exited(t) == pc[t] = "done" /\ sess[t] # None
\* t may enter get_async_session.
CanRequest(t) == pc[t] \in {"idle", "done"} /\ Opened < MaxScopes

\* C1 as stated: a block that completes without raising has its changes
\* committed exactly once; a block that raises has commit never performed
\* and none of its changes in the store.
C1_CommitOnceOrNothing ==
    \A t \in Task : Exited(t) =>
        /\ block[t] = "returned" => commits[t] = 1 /\ ScopeRows(t) \subseteq store
        /\ block[t] = "raised" => commits[t] = 0 /\ ScopeRows(t) \cap store = {}

\* C1 amended: a block that completes without raising has commit performed
\* exactly once, and its changes are in the store exactly when that commit
\* succeeded (a commit that fails is rolled back and leaves none of them);
\* a block that raises has commit never performed and none of its changes
\* in the store. No change reaches the store before the commit.
C1_CommitOnceAndAtomic ==
    \A t \in Task :
        /\ commits[t] <= 1
        /\ pc[t] \in {"body", "commit", "rollback"} => ScopeRows(t) \cap store = {}
        /\ Exited(t) =>
            /\ block[t] = "returned" =>
                /\ commits[t] = 1
                /\ IF result[t] = "ok" THEN ScopeRows(t) \subseteq store
                                       ELSE ScopeRows(t) \cap store = {}
            /\ block[t] = "raised" =>
                /\ commits[t] = 0
                /\ ScopeRows(t) \cap store = {}

\* One scope committed its rows, one had its commit fail with a good and a
\* bad row pending, and nothing of the second is in the store.
C1_Witness ==
    \E t \in Task, u \in Task :
        /\ Exited(t) /\ block[t] = "returned" /\ result[t] = "ok"
        /\ issued[t] # {} /\ ScopeRows(t) \subseteq store
        /\ Exited(u) /\ block[u] = "returned" /\ result[u] = "IntegrityError"
        /\ issued[u] = {"row", "bad_row"} /\ ScopeRows(u) \cap store = {}

\* C2: every connection a session takes goes back to the pool exactly once,
\* whatever the outcome: no session checks in more often than it checked
\* out, a session holds a connection exactly between the two, an exited
\* scope holds none and has no transaction open, and each engine's count of
\* checked-out connections is the number of sessions holding one.
C2_ReleasedExactlyOnce ==
    /\ \A t \in Task :
        /\ released[t] <= acquired[t]
        /\ conn[t] <=> acquired[t] = released[t] + 1
        /\ pc[t] = "done" =>
            /\ released[t] = acquired[t]
            /\ ~conn[t]
            /\ txn[t] # "open"
            /\ pending[t] = {}
    /\ \A e \in Engine :
        engines[e].checkedout = Cardinality({t \in Task : conn[t] /\ sess[t] = e})

\* One scope was cancelled and one had its commit fail, each after taking
\* a connection, and both gave it back.
C2_Witness ==
    \E t \in Task, u \in Task :
        /\ Exited(t) /\ raised[t] = "CancelledError"
        /\ acquired[t] = 1 /\ released[t] = 1
        /\ Exited(u) /\ block[u] = "returned" /\ raised[u] = "IntegrityError"
        /\ acquired[u] = 1 /\ released[u] = 1

\* C3: a failure raised by the block or by the commit is never swallowed or
\* replaced: the scope exits with exactly that failure, and by the time the
\* session has given up its connection the transaction is no longer open
\* (for an Exception the handler's rollback has run before the close).
C3_FailureSurfacesAfterRollback ==
    \A t \in Task : sess[t] # None /\ raised[t] # NoFailure =>
        /\ pc[t] \in {"rollback", "close", "aexit", "done"}
        /\ pc[t] = "done" => result[t] = raised[t] /\ result[t] # "ok"
        /\ pc[t] # "done" => result[t] = "none"
        /\ pc[t] # "rollback" /\ IsException(raised[t]) => rollbacks[t] = 1
        /\ pc[t] \in {"aexit", "done"} =>
            /\ txn[t] \in {"none", "rolledback"}
            /\ ~conn[t]
            /\ pending[t] = {}
        /\ released[t] > 0 => txn[t] # "open"
        /\ ScopeRows(t) \cap store = {}

\* A failed commit and a block that raised after its query, both surfaced.
C3_Witness ==
    \E t \in Task, u \in Task :
        /\ Exited(t) /\ block[t] = "returned" /\ result[t] = "IntegrityError"
        /\ txn[t] = "rolledback" /\ released[t] = 1
        /\ Exited(u) /\ block[u] = "raised" /\ result[u] = "ValueError"
        /\ txn[u] = "rolledback" /\ released[u] = 1

\* C4: in every state, a request for a session (through get_async_session
\* or get_db) made before any init_db call fails with the not-initialized
\* error, and no session is built and no connection taken; one made once
\* init_db has run, before or after close_db, gets a session of an engine
\* init_db built.
C4_NotInitializedUntilInit ==
    \A t \in Task :
        /\ result[t] = "RuntimeError" =>
              sess[t] = None /\ ~conn[t] /\ acquired[t] = 0 /\ txn[t] = "none"
        /\ CanRequest(t) =>
            IF Created = {}
              THEN /\ ENABLED (/\ get_async_session(t)
                               /\ pc'[t] = "done"
                               /\ result'[t] = "RuntimeError"
                               /\ sess'[t] = None
                               /\ ~conn'[t] /\ acquired'[t] = 0
                               /\ engines' = engines)
                   /\ ENABLED (get_db(t) /\ result'[t] = "RuntimeError" /\ sess'[t] = None)
              ELSE /\ ENABLED (/\ get_async_session(t)
                               /\ pc'[t] = "body"
                               /\ result'[t] = "none"
                               /\ sess'[t] \in Created)
                   /\ ENABLED (get_db(t) /\ pc'[t] = "body" /\ sess'[t] \in Created)

\* A task that was refused before init_db now has a session.
C4_Witness ==
    \E t \in Task, u \in Task :
        /\ result[t] = "RuntimeError" /\ sess[t] = None
        /\ scope[u] > scope[t] /\ pc[u] = "body" /\ sess[u] \in Created

\* C9: in every state a close_db call leaves async_engine and
\* async_session_factory as they are; it disposes the engine held, once
\* more each time it is called, and touches no engine when none is held.
\* So the handles stay set once init_db has set them, and a session
\* requested when the engine held has been disposed is still built, on
\* that engine.
C9_CloseKeepsHandles ==
    /\ IF async_engine = None
         THEN ENABLED (/\ close_db
                       /\ async_engine' = None
                       /\ async_session_factory' = async_session_factory
                       /\ engines' = engines)
         ELSE Disposals(MaxInits) < MaxCloses =>
              ENABLED (/\ close_db
                       /\ async_engine' = async_engine
                       /\ async_session_factory' = async_session_factory
                       /\ engines' = [engines EXCEPT ![async_engine].disposals = @ + 1])
    /\ Created # {} => async_engine # None /\ async_session_factory # None
    /\ \A t \in Task :
          CanRequest(t) /\ async_engine # None /\ engines[async_engine].disposals > 0 =>
              ENABLED (/\ get_async_session(t)
                       /\ pc'[t] = "body"
                       /\ sess'[t] = async_engine
                       /\ result'[t] # "RuntimeError")

\* The engine was disposed twice and a scope opened after a disposal ran
\* its query and came to its end without failure.
C9_Witness ==
    \E t \in Task :
        /\ Exited(t) /\ result[t] = "ok" /\ opened_at[t] >= 1
        /\ acquired[t] = 1 /\ released[t] = 1
        /\ sess[t] = async_engine /\ async_session_factory = async_engine
        /\ engines[sess[t]].disposals = 2

\* C10: every engine init_db has built and close_db has not disposed is the
\* one held in async_engine, and the factory is bound to the engine held.
C10_LiveEngineIsHeld ==
    /\ \A e \in Created : engines[e].disposals = 0 => e = async_engine
    /\ async_session_factory = async_engine

\* v has the triple (r, a, b).
SameTriple(v, r, a, b) == v.ride_id = r /\ v.reviewer_id = a /\ v.reviewee_id = b
RatingInRange(n) == n \in 1 .. 5
StatusListed == {"pending", "confirmed", "cancelled", "completed"}
BookingValid(seats, amount, status) ==
    seats > 0 /\ amount >= 0 /\ status \in StatusListed

\* C5: no two rows of reviews ever share (ride_id, reviewer_id,
\* reviewee_id). In every state, an insert whose triple a row already has
\* is rejected and leaves the table as it was, with a uniqueness violation
\* when nothing else is wrong with the row; an insert whose triple no row
\* has, with a rating in range and existing references, adds exactly that
\* row.
C5_UniqueTriple ==
    /\ \A v \in reviews, w \in reviews :
          SameTriple(v, w.ride_id, w.reviewer_id, w.reviewee_id) => v = w
    /\ \A r \in Ride, a \in User, b \in User, n \in RatingTried :
          IF \E v \in reviews : SameTriple(v, r, a, b)
            THEN ENABLED (/\ insert_review(r, a, b, <<n>>)
                          /\ db_error' # NoFailure
                          /\ reviews' = reviews
                          /\ RatingInRange(n) => db_error' = "unique_violation")
            ELSE RatingInRange(n) /\ r \in rides /\ a \in users /\ b \in users
                    /\ HasRoom =>
                 ENABLED (/\ insert_review(r, a, b, <<n>>)
                          /\ db_error' = NoFailure
                          /\ reviews \subseteq reviews'
                          /\ Cardinality(reviews') = Cardinality(reviews) + 1
                          /\ \E v \in reviews' : SameTriple(v, r, a, b) /\ v.rating = n)

\* A duplicate was just refused while the table holds two rows that differ
\* in one component of the triple only.
C5_Witness ==
    /\ db_error = "unique_violation"
    /\ \E v \in reviews, w \in reviews :
        /\ v.ride_id = w.ride_id /\ v.reviewer_id = w.reviewer_id
        /\ v.reviewee_id # w.reviewee_id

\* C6: every booking and every review references a ride and users that
\* exist; in every state each ride and each user can be deleted, and the
\* delete removes exactly the bookings and reviews that reference it.
C6_CascadeNoOrphans ==
    /\ \A b \in bookings : b.ride_id \in rides /\ b.passenger_id \in users
    /\ \A v \in reviews : /\ v.ride_id \in rides
                          /\ v.reviewer_id \in users
                          /\ v.reviewee_id \in users
    /\ \A r \in rides :
          ENABLED (/\ delete_ride(r)
                   /\ db_error' = NoFailure
                   /\ rides' = rides \ {r} /\ users' = users
                   /\ bookings' = {b \in bookings : b.ride_id # r}
                   /\ reviews' = {v \in reviews : v.ride_id # r})
    /\ \A u \in users :
          ENABLED (/\ delete_user(u)
                   /\ db_error' = NoFailure
                   /\ users' = users \ {u} /\ rides' = rides
                   /\ bookings' = {b \in bookings : b.passenger_id # u}
                   /\ reviews' = {v \in reviews :
                                     v.reviewer_id # u /\ v.reviewee_id # u})

\* A ride was just deleted and took a booking and a review with it.
C6_Witness ==
    /\ last_op = <<"delete_ride", 1, 1>>
    /\ bookings = {} /\ reviews = {}

\* C7: every stored booking has seats_reserved > 0, amount_paid >= 0 and a
\* listed status, every stored review a rating from 1 to 5. In every state,
\* an insert or update of a booking or review that breaks one of the checks
\* is rejected with a check violation and leaves the tables as they were;
\* an insert that breaks none and references existing rows is accepted,
\* with the defaults pending and 0.00 for what it leaves out.
C7_ChecksAtTheStore ==
    /\ \A b \in bookings : BookingValid(b.seats_reserved, b.amount_paid, b.status)
    /\ \A v \in reviews : RatingInRange(v.rating)
    /\ \A r \in Ride, p \in User, c \in BookingTried :
          c[1] # <<>> =>
          IF BookingValid(c[1][1], OrDefault(c[2], 0), OrDefault(c[3], "pending"))
            THEN r \in rides /\ p \in users /\ HasRoom =>
                 ENABLED (/\ insert_booking(r, p, c[1], c[2], c[3])
                          /\ db_error' = NoFailure
                          /\ \E b \in bookings' \ bookings :
                                /\ b.ride_id = r /\ b.passenger_id = p
                                /\ b.seats_reserved = c[1][1]
                                /\ b.amount_paid = OrDefault(c[2], 0)
                                /\ b.status = OrDefault(c[3], "pending"))
            ELSE ENABLED (/\ insert_booking(r, p, c[1], c[2], c[3])
                          /\ db_error' = "check_violation"
                          /\ bookings' = bookings /\ reviews' = reviews)
    /\ \A b \in bookings, n \in SeatsTried, a \in AmountTried, st \in StatusTried :
          ~BookingValid(n, a, st) =>
              ENABLED (/\ update_booking(b, n, a, st)
                       /\ db_error' = "check_violation"
                       /\ bookings' = bookings /\ reviews' = reviews)
    /\ \A r \in Ride, a \in User, b \in User, n \in RatingTried :
          ~RatingInRange(n) =>
              ENABLED (/\ insert_review(r, a, b, <<n>>)
                       /\ db_error' = "check_violation"
                       /\ bookings' = bookings /\ reviews' = reviews)
    /\ \A v \in reviews, n \in RatingTried :
          ~RatingInRange(n) =>
              ENABLED (/\ update_review(v, n)
                       /\ db_error' = "check_violation"
                       /\ bookings' = bookings /\ reviews' = reviews)

\* A write was just refused by a check while the tables hold a booking
\* with one seat, nothing paid and the default status, and a review rated 5.
C7_Witness ==
    /\ db_error = "check_violation"
    /\ \E b \in bookings :
        b.seats_reserved = 1 /\ b.amount_paid = 0 /\ b.status = "pending"
    /\ \E v \in reviews : v.rating = 5

\* C8 as stated: the connections checked out never exceed pool_size +
\* max_overflow, each session holding one holds its own, a task suspends
\* only when that bound is reached, and a suspended task never fails.
C8_BoundedAndNeverFails ==
    /\ CheckedOut <= PoolLimit
    /\ t_hold = CheckedOut
    /\ t_timeout = 0

\* C8 amended: the connections checked out of the engine's pool never
\* exceed pool_size + max_overflow = 30 and each session holding one holds
\* its own; a task suspends only when all 30 are checked out, it resumes
\* once a connection has come back, and sessions that hold a connection can
\* always release it; a suspended task fails only through the timeout of
\* its wait, which init_db leaves at the pool's default.
C8_BoundedPool ==
    /\ [](/\ CheckedOut >= 0
          /\ CheckedOut <= PoolLimit
          /\ PoolLimit = 30
          /\ t_hold = CheckedOut
          /\ idle_conns >= 0 /\ idle_conns <= PoolSize
          /\ t_new + t_wait + t_hold + t_timeout = NumPoolTasks
          /\ t_wait > 0 /\ idle_conns > 0 => ENABLED pool_wakeup
          /\ t_hold > 0 => ENABLED pool_release)
    /\ [][/\ t_wait' > t_wait => CheckedOut = PoolLimit /\ CheckedOut' = PoolLimit
          /\ t_timeout' > t_timeout => t_wait' < t_wait /\ t_hold' = t_hold
          /\ t_hold' < t_hold => CheckedOut' = CheckedOut - 1]_vars

\* All 30 connections are out, a task is suspended and another has timed out.
C8_Witness ==
    /\ CheckedOut = PoolLimit
    /\ t_hold = 30
    /\ t_wait = 1
    /\ t_timeout = 1

====
